---- MODULE Spec2Model ----
(***************************************************************************)
(* Model of main.py of kokirii/EventCamera: the multi-scale endpoint-error *)
(* loss, the training loop with Adam and StepLR, the checkpoint round trip *)
(* and the evaluation/export loop.                                         *)
(*                                                                         *)
(* Tensors are abstracted to their shape and one flow vector: a tensor is  *)
(* [n, h, w, u, v], the batch size, the spatial size and the flow (u, v)   *)
(* that every pixel holds.  Flow values and losses are float32 numbers     *)
(* written as integer multiples of one common power-of-two unit, so the    *)
(* rounding of float32 is the rounding of integers to 24 significant bits. *)
(* The scale factor of the resize is a Python float (IEEE double) and is   *)
(* computed bit-exactly on multi-limb integers.                            *)
(***************************************************************************)
EXTENDS Integers, Sequences, FiniteSets, TLC

VARIABLES
    args,         \* hydra configuration: epochs, weight_decay, test batch size
    train_data,   \* the training DataLoader: the sequence of its batches
    test_set,     \* number of samples of the test dataset
    world,        \* the external collaborators: model kind, faults, clock
    pc,           \* the statement of main() that runs next
    epoch,        \* loop variable of line 72
    i,            \* loop variable of line 75
    total_loss,   \* epoch accumulator of lines 73 and 86
    flow_dict,    \* multi-scale prediction of the current batch (line 79)
    loss,         \* loss of the current batch (line 80)
    model,        \* EVFlowNet: parameters, their .grad, train/eval mode
    optimizer,    \* Adam: learning rate (number of decays applied), exp_avg
    scheduler,    \* StepLR: last_epoch
    files,        \* the file system: checkpoints and submission.npy
    model_path,   \* path of the checkpoint (line 95)
    flow,         \* accumulated evaluation output (line 101)
    hist,         \* history: what happened so far in this run
    call,         \* arguments of a stand-alone call of a pure function
    ret           \* its result

vars == <<args, train_data, test_set, world, pc, epoch, i, total_loss,
          flow_dict, loss, model, optimizer, scheduler, files, model_path,
          flow, hist, call, ret>>

(***************************************************************************)
(* Bounds of the model.                                                    *)
(***************************************************************************)
MaxEpochs == 2          \* epochs of a short run
MaxLongEpochs == 11     \* epochs of a long run (reaches the first lr decay)
MaxTrainBatches == 2    \* batches of the training loader
MaxTestSet == 3         \* samples of the test set
TestBatchSize == 2      \* data_loader.test.batch_size
ImgH == 4               \* height of the event volume / ground truth
ImgW == 4               \* width of the event volume / ground truth
MaxDim == 22            \* largest spatial size of a stand-alone resize
MaxScales == 3          \* scales of a stand-alone loss call
MomentScale == 100      \* fixed-point units of Adam's exp_avg per gradient unit

None == "none"

(***************************************************************************)
(* Integer helpers.                                                        *)
(***************************************************************************)
Abs(x) == IF x < 0 THEN 0 - x ELSE x

Sgn(x) == IF x > 0 THEN 1 ELSE IF x < 0 THEN 0 - 1 ELSE 0

\* division rounding toward zero
TruncDiv(x, d) == IF x >= 0 THEN x \div d ELSE 0 - ((0 - x) \div d)

RECURSIVE Pow2(_)
Pow2(k) == IF k = 0 THEN 1 ELSE 2 * Pow2(k - 1)

RECURSIVE IntBitLen(_)
IntBitLen(n) == IF n = 0 THEN 0 ELSE 1 + IntBitLen(n \div 2)

RECURSIVE SqrtFrom(_, _)
SqrtFrom(n, s) == IF (s + 1) * (s + 1) > n THEN s ELSE SqrtFrom(n, s + 1)

\* floor of the square root
ISqrt(n) == SqrtFrom(n, 0)

(***************************************************************************)
(* Natural numbers of any size as little-endian sequences of limbs.        *)
(***************************************************************************)
LimbBits == 13

LimbBase == Pow2(LimbBits)

RECURSIVE ToLimbs(_)
ToLimbs(n) == IF n = 0 THEN <<>> ELSE <<n % LimbBase>> \o ToLimbs(n \div LimbBase)

RECURSIVE ToInt(_)
ToInt(x) == IF x = <<>> THEN 0 ELSE x[1] + LimbBase * ToInt(Tail(x))

RECURSIVE Trim(_)
Trim(x) ==
    IF x = <<>> THEN x
    ELSE IF x[Len(x)] = 0 THEN Trim(SubSeq(x, 1, Len(x) - 1)) ELSE x

BitLen(x) == IF x = <<>> THEN 0 ELSE LimbBits * (Len(x) - 1) + IntBitLen(x[Len(x)])

RECURSIVE MulLimbs(_, _, _, _)
MulLimbs(x, w, idx, carry) ==
    IF idx > Len(x) THEN ToLimbs(carry)
    ELSE LET t == x[idx] * w + carry
         IN <<t % LimbBase>> \o MulLimbs(x, w, idx + 1, t \div LimbBase)

MulSmall(x, w) == Trim(MulLimbs(x, w, 1, 0))

RECURSIVE DivLimbs(_, _, _, _)
DivLimbs(x, d, idx, r) ==
    IF idx = 0 THEN [q |-> <<>>, r |-> r]
    ELSE LET t == r * LimbBase + x[idx]
             rest == DivLimbs(x, d, idx - 1, t % d)
         IN [q |-> rest.q \o <<t \div d>>, r |-> rest.r]

DivSmall(x, d) ==
    LET qr == DivLimbs(x, d, Len(x), 0) IN [q |-> Trim(qr.q), r |-> qr.r]

ShiftLeft(x, s) ==
    IF x = <<>> THEN x
    ELSE MulSmall([j \in 1..(s \div LimbBits) |-> 0] \o x, Pow2(s % LimbBits))

ShiftRight(x, s) ==
    LET j == s \div LimbBits
    IN IF j >= Len(x) THEN <<>>
       ELSE DivSmall(SubSeq(x, j + 1, Len(x)), Pow2(s % LimbBits)).q

RECURSIVE Succ(_)
Succ(x) ==
    IF x = <<>> THEN <<1>>
    ELSE IF x[1] + 1 < LimbBase THEN <<x[1] + 1>> \o Tail(x)
         ELSE <<0>> \o Succ(Tail(x))

\* the low k bits of x, k <= 2 * LimbBits
LowBits(x, k) ==
    LET l1 == IF Len(x) >= 1 THEN x[1] ELSE 0
        l2 == IF Len(x) >= 2 THEN x[2] ELSE 0
    IN (l1 + LimbBase * l2) % Pow2(k)

(***************************************************************************)
(* IEEE-754 double arithmetic on positive numbers: a double is m * 2^x     *)
(* with m an integer of at most DoublePrec bits.  Every operation rounds   *)
(* its exact result to nearest, ties to even.                              *)
(***************************************************************************)
DoublePrec == 53

\* round the integer q (sticky: a non-zero fraction lies below it)
RoundToPrec(q, sticky) ==
    LET k == BitLen(q) - DoublePrec
    IN IF k <= 0 THEN [m |-> q, x |-> 0]
       ELSE LET hi   == ShiftRight(q, k)
                rem  == LowBits(q, k)
                half == Pow2(k - 1)
                odd  == hi[1] % 2 = 1
                up   == rem > half \/ (rem = half /\ (sticky \/ odd))
            IN [m |-> IF up THEN Succ(hi) ELSE hi, x |-> k]

\* the Python expression a / b on two positive ints
FDiv(a, b) ==
    LET K  == DoublePrec + 1 + IntBitLen(b)
        qr == DivSmall(ShiftLeft(ToLimbs(a), K), b)
        rd == RoundToPrec(qr.q, qr.r # 0)
    IN [m |-> rd.m, x |-> rd.x - K]

\* the double product n * f of an int and a double
FMulInt(n, f) ==
    LET rd == RoundToPrec(MulSmall(f.m, n), FALSE)
    IN [m |-> rd.m, x |-> rd.x + f.x]

\* conversion of a double to an integer, truncating
Floor(f) ==
    IF f.x >= 0 THEN ToInt(ShiftLeft(f.m, f.x)) ELSE ToInt(ShiftRight(f.m, 0 - f.x))

(***************************************************************************)
(* float32 arithmetic on non-negative multiples of the common unit.        *)
(***************************************************************************)
FloatPrec == 24

RoundF32(n) ==
    LET k == IntBitLen(n) - FloatPrec
    IN IF k <= 0 THEN n
       ELSE LET hi   == n \div Pow2(k)
                rem  == n % Pow2(k)
                half == Pow2(k - 1)
                up   == rem > half \/ (rem = half /\ hi % 2 = 1)
            IN (IF up THEN hi + 1 ELSE hi) * Pow2(k)

FAdd32(a, b) == RoundF32(a + b)

(***************************************************************************)
(* Tensors of shape (n, 2, h, w) whose pixels all hold the flow (u, v).    *)
(***************************************************************************)
Tensor(n, h, w, u, v) == [n |-> n, h |-> h, w |-> w, u |-> u, v |-> v]

\* line 32: pred_flow.shape[2] / gt_flow.shape[2], one factor from the heights
scale_factor(pred_flow, gt_flow) == FDiv(pred_flow.h, gt_flow.h)

\* torch's output size of interpolate(scale_factor=sf): floor(size * sf)
OutputSize(size, sf) == Floor(FMulInt(size, sf))

\* line 33: torch.nn.functional.interpolate(gt_flow, scale_factor=sf,
\* mode='bilinear'); it raises when an output size is not positive.  The
\* bilinear resampling of a constant field is that constant field.
interpolate(gt_flow, sf) ==
    LET oh == OutputSize(gt_flow.h, sf)
        ow == OutputSize(gt_flow.w, sf)
    IN IF oh > 0 /\ ow > 0
       THEN [ok |-> TRUE, t |-> [gt_flow EXCEPT !.h = oh, !.w = ow]]
       ELSE [ok |-> FALSE, t |-> gt_flow]

\* two sizes that torch broadcasts against each other
Broadcastable(a, b) == a = b \/ a = 1 \/ b = 1

\* shapes for which pred_flow - scaled_gt_flow is defined
SameShape(p, q) ==
    /\ Broadcastable(p.n, q.n)
    /\ Broadcastable(p.h, q.h)
    /\ Broadcastable(p.w, q.w)

\* float32 subtraction of two components
FSub32(a, b) == Sgn(a - b) * RoundF32(Abs(a - b))

\* torch.norm(., p=2, dim=1) of one pixel: exact when the sum of squares is
\* a perfect square, as it is for every flow of this model
Norm2(du, dv) ==
    IF dv = 0 THEN Abs(du)
    ELSE IF du = 0 THEN Abs(dv)
    ELSE RoundF32(ISqrt(du * du + dv * dv))

\* line 34: torch.mean(torch.norm(pred_flow - scaled_gt_flow, p=2, dim=1));
\* the mean over pixels that all hold the same norm is that norm
EndpointError(pred_flow, scaled_gt_flow) ==
    Norm2(FSub32(pred_flow.u, scaled_gt_flow.u), FSub32(pred_flow.v, scaled_gt_flow.v))

\* lines 32-34 for one scale: the endpoint error, or the error raised
ScaleEPE(pred_flow, gt_flow) ==
    LET scaled_gt_flow == interpolate(gt_flow, scale_factor(pred_flow, gt_flow))
    IN IF scaled_gt_flow.ok /\ SameShape(pred_flow, scaled_gt_flow.t)
       THEN [ok |-> TRUE, val |-> EndpointError(pred_flow, scaled_gt_flow.t)]
       ELSE [ok |-> FALSE, val |-> 0]

\* an assignment in place of the addition
Accumulate_Assign(total, epe) == epe

\* line 35: total_loss += epe
Accumulate(total, epe) == FAdd32(total, epe)

RECURSIVE LossFrom(_, _, _, _)
LossFrom(pred_flows, gt_flow, idx, total) ==
    IF idx > Len(pred_flows) THEN [ok |-> TRUE, val |-> total]
    ELSE LET e == ScaleEPE(pred_flows[idx].t, gt_flow)
         IN IF e.ok
            THEN LossFrom(pred_flows, gt_flow, idx + 1, Accumulate(total, e.val))
            ELSE [ok |-> FALSE, val |-> 0]

\* lines 29-36; pred_flows is the dict as the sequence of its items
compute_multiscale_epe_error(pred_flows, gt_flow) ==
    LossFrom(pred_flows, gt_flow, 1, 0)

\* the prediction equals the resized ground truth at every scale
AllMatch(pred_flows, gt_flow) ==
    \A idx \in 1..Len(pred_flows) :
        LET p == pred_flows[idx].t
            g == interpolate(gt_flow, scale_factor(p, gt_flow))
        IN g.ok /\ p = g.t

(***************************************************************************)
(* The external collaborators.                                             *)
(***************************************************************************)
\* flows of the data sets and of the predictions, in float32 units
FlowVals == {<<0, 0>>, <<3, 4>>}

\* the checkpoint of an earlier run that the directory may already hold
StaleParam == 7

\* values of time.strftime("%Y%m%d%H%M%S") at line 94
Clock == {1, 2}

\* line 95: f"checkpoints/model_{current_time}.pth"
CheckpointPath(current_time) == <<"checkpoints", "model", current_time, "pth">>

\* a loader that always drops the short last batch
Batches_DropLast(n, batch_size, drop_last) ==
    [b \in 1..(n \div batch_size) |->
        [s \in 1..batch_size |-> (b - 1) * batch_size + s]]

\* the DataLoader of lines 60-64 over a set of n samples: batches of
\* batch_size samples in order, the last one shorter unless it is dropped
Batches(n, batch_size, drop_last) ==
    LET full == n \div batch_size
        cnt  == IF drop_last \/ n % batch_size = 0 THEN full ELSE full + 1
    IN [b \in 1..cnt |->
           [s \in 1..(IF b * batch_size <= n THEN batch_size ELSE n % batch_size)
               |-> (b - 1) * batch_size + s]]

\* line 60-64: drop_last=False
test_data == Batches(test_set, args.test_batch_size, FALSE)

\* the flow_gt of a training batch
GroundTruth(batch) == Tensor(1, ImgH, ImgW, batch[1], batch[2])

\* a half-resolution size, at least one pixel
Half(size) == IF size \div 2 = 0 THEN 1 ELSE size \div 2

\* the network's answer with flow a at half and at full resolution
TwoScales(a) ==
    <<[scale |-> "flow2", t |-> Tensor(1, Half(ImgH), Half(ImgW), a[1], a[2])],
      [scale |-> "flow3", t |-> Tensor(1, ImgH, ImgW, a[1], a[2])]>>

\* model(event_image) for training batch b: the stub of the end-to-end
\* scenario answers zeros at full resolution; the network answers what
\* world.answers holds for the batch; a faulty one may answer a width that
\* does not fit
Predictions(b) ==
    IF world.kind = "stub"
    THEN {<<[scale |-> "flow3", t |-> Tensor(1, ImgH, ImgW, 0, 0)]>>}
    ELSE {TwoScales(world.answers[b].pred)}
         \cup (IF world.faulty
               THEN {<<[scale |-> "flow3", t |-> Tensor(1, ImgH, ImgW + 2, 0, 0)]>>}
               ELSE {})

\* d loss / d parameter that loss.backward() adds to .grad for batch b: zero
\* where the prediction equals the resized ground truth at every scale (the
\* norm has sub-gradient zero there), and zero for the stub
Gradient(b, pred_flows, gt_flow) ==
    IF world.kind = "stub" \/ AllMatch(pred_flows, gt_flow)
    THEN 0 ELSE world.answers[b].grad

\* what a network can answer for a batch of ground truth gt: a flow, and
\* a gradient that is not zero where the flow misses gt
Answers(gt) ==
    {[pred |-> a, grad |-> d] : a \in FlowVals, d \in {0 - 1, 0, 1}}
        \ {r \in [pred : FlowVals, grad : {0 - 1, 0, 1}] : (r.pred = gt) # (r.grad = 0)}

(***************************************************************************)
(* Adam and StepLR.                                                        *)
(***************************************************************************)
\* a decay that ignores the configured weight_decay
DecayedGrad_Always(grad, param, weight_decay) == grad + param

\* torch.optim.Adam.step with weight decay: grad + weight_decay * param
DecayedGrad(grad, param, weight_decay) == grad + weight_decay * param

\* exp_avg.lerp_(grad, 1 - beta1) with beta1 = 0.9, in fixed point
Lerp(exp_avg, grad) == exp_avg + TruncDiv(grad * MomentScale - exp_avg, 10)

\* param.addcdiv_(exp_avg, denom, value=-step_size): step_size and denom
\* are positive, so the parameter moves against the sign of exp_avg and
\* stays where exp_avg is zero; the model keeps one unit per step
AdamUpdate(param, exp_avg) == param - Sgn(exp_avg)

\* StepLR(step_size=10, gamma=0.1): the number of decays after a step
StepSize == 10

\* a schedule that decays one epoch early
StepLR_Early(lr_decays, last_epoch) ==
    IF (last_epoch + 1) % StepSize = 0 THEN lr_decays + 1 ELSE lr_decays

StepLR(lr_decays, last_epoch) ==
    IF last_epoch % StepSize = 0 THEN lr_decays + 1 ELSE lr_decays

(***************************************************************************)
(* The initial state: main() up to line 71.                                *)
(***************************************************************************)
\* no report yet, no path yet
NoMean == [num |-> 0, den |-> 0]

NoPath == <<>>

NoHist ==
    [trace |-> <<>>, opt_steps |-> 0, sched_steps |-> 0, batches |-> 0,
     resets |-> 0, reports |-> 0, mean |-> NoMean, batch_grad |-> 0,
     param_before |-> 0, exp_avg_before |-> 0, step_lr |-> 0 - 1,
     params_trained |-> 0, failed_at |-> None, injected |-> FALSE,
     saved |-> NoPath, loaded |-> NoPath, evals |-> 0, writes |-> 0]

CheckpointPaths == {CheckpointPath(t) : t \in Clock}

\* a file that does not exist, and a file holding data
NoFile == <<>>

File(data) == <<data>>

\* the files before the run: the checkpoint of an earlier run, no submission
StaleFiles ==
    [ckpt |-> [p \in CheckpointPaths |-> IF p = CheckpointPath(1) THEN File(StaleParam) ELSE NoFile],
     submission |-> NoFile]

SeqsUpTo(S, n) == UNION {[1..k -> S] : k \in 0..n}

\* the parameters that EVFlowNet(args.train) starts from
InitParam == 1

Start(arg, data, tests, w) ==
    /\ args = arg
    /\ train_data = data
    /\ test_set = tests
    /\ world = w
    /\ pc = "epoch"
    /\ epoch = 0
    /\ i = 0
    /\ total_loss = 0
    /\ flow_dict = <<>>
    /\ loss = 0
    /\ model = [param |-> InitParam, grad |-> 0, training |-> TRUE]
    /\ optimizer = [lr_decays |-> 0, exp_avg |-> 0]
    /\ scheduler = [last_epoch |-> 0]
    /\ files = StaleFiles
    /\ model_path = NoPath
    /\ flow = <<>>
    /\ hist = [NoHist EXCEPT !.params_trained = InitParam]
    /\ call = <<>>
    /\ ret = <<>>

\* short runs of the network on any training and test data
Init ==
    \E e \in 0..MaxEpochs, wd \in {0, 1},
       data \in SeqsUpTo(FlowVals, MaxTrainBatches), tests \in 0..MaxTestSet,
       faulty \in BOOLEAN :
        \E answers \in [1..Len(data) -> UNION {Answers(gt) : gt \in FlowVals}] :
            /\ \A b \in 1..Len(data) : answers[b] \in Answers(data[b])
            /\ Start([epochs |-> e, weight_decay |-> wd, test_batch_size |-> TestBatchSize],
                     data, tests, [kind |-> "net", faulty |-> faulty, answers |-> answers])

\* long runs of the stub of the end-to-end scenario
InitLong ==
    \E e \in (MaxLongEpochs - 1)..MaxLongEpochs, wd \in {0, 1},
       data \in SeqsUpTo({<<0, 0>>}, 1), faulty \in BOOLEAN :
        Start([epochs |-> e, weight_decay |-> wd, test_batch_size |-> TestBatchSize],
              data, 1, [kind |-> "stub", faulty |-> faulty, answers |-> <<>>])

(***************************************************************************)
(* main(), lines 72-89: the training loop.                                 *)
(***************************************************************************)
\* an exception that is caught and logged, after which main() goes on to
\* the checkpoint
Abort_Caught(at, injected) ==
    /\ pc' = "save"
    /\ hist' = [hist EXCEPT !.failed_at = at, !.injected = injected]

Abort(at, injected) ==
    /\ pc' = "aborted"
    /\ hist' = [hist EXCEPT !.failed_at = at, !.injected = injected]

\* the batch that the loop of line 75 is processing
Batch == train_data[i + 1]

\* a loop that enters its body before it tests the epoch count
BeginEpoch_Once ==
    /\ pc = "epoch"
    /\ epoch < args.epochs \/ epoch = 0
    /\ total_loss' = 0
    /\ i' = 0
    /\ pc' = "fetch"
    /\ hist' = [hist EXCEPT !.resets = @ + 1]
    /\ UNCHANGED <<args, train_data, test_set, world, epoch, flow_dict, loss,
                   model, optimizer, scheduler, files, model_path, flow, call, ret>>

\* line 72 entered, lines 73-74: a new epoch starts with a zero accumulator
BeginEpoch ==
    /\ pc = "epoch"
    /\ epoch < args.epochs
    /\ total_loss' = 0
    /\ i' = 0
    /\ pc' = "fetch"
    /\ hist' = [hist EXCEPT !.resets = @ + 1]
    /\ UNCHANGED <<args, train_data, test_set, world, epoch, flow_dict, loss,
                   model, optimizer, scheduler, files, model_path, flow, call, ret>>

\* line 72 exhausted: range(args.train.epochs) is over
EndTraining ==
    /\ pc = "epoch"
    /\ epoch >= args.epochs
    /\ pc' = "save"
    /\ UNCHANGED <<args, train_data, test_set, world, epoch, i, total_loss,
                   flow_dict, loss, model, optimizer, scheduler, files,
                   model_path, flow, hist, call, ret>>

\* lines 75-78: the loader hands out the next batch
NextBatch ==
    /\ pc = "fetch"
    /\ i < Len(train_data)
    /\ pc' = "forward"
    /\ hist' = [hist EXCEPT !.trace = <<>>]
    /\ UNCHANGED <<args, train_data, test_set, world, epoch, i, total_loss,
                   flow_dict, loss, model, optimizer, scheduler, files,
                   model_path, flow, call, ret>>

\* line 75 exhausted
EndEpoch ==
    /\ pc = "fetch"
    /\ i >= Len(train_data)
    /\ pc' = "report"
    /\ UNCHANGED <<args, train_data, test_set, world, epoch, i, total_loss,
                   flow_dict, loss, model, optimizer, scheduler, files,
                   model_path, flow, hist, call, ret>>

\* line 79: flow_dict = model(event_image)
Forward ==
    /\ pc = "forward"
    /\ \E p \in Predictions(i + 1) : flow_dict' = p
    /\ pc' = "loss"
    /\ hist' = [hist EXCEPT !.trace = Append(@, "forward"), !.batches = @ + 1]
    /\ UNCHANGED <<args, train_data, test_set, world, epoch, i, total_loss,
                   loss, model, optimizer, scheduler, files, model_path, flow,
                   call, ret>>

\* lines 80-81: the loss, or the shape error it raises
ComputeLoss ==
    /\ pc = "loss"
    /\ LET r == compute_multiscale_epe_error(flow_dict, GroundTruth(Batch))
       IN IF r.ok
          THEN /\ loss' = r.val
               /\ pc' = "zero_grad"
               /\ hist' = [hist EXCEPT !.trace = Append(@, "loss")]
          ELSE /\ Abort("loss", world.faulty)
               /\ UNCHANGED loss
    /\ UNCHANGED <<args, train_data, test_set, world, epoch, i, total_loss,
                   flow_dict, model, optimizer, scheduler, files, model_path,
                   flow, call, ret>>

\* a gradient that is never reset
ZeroGradValue_Kept(grad) == grad

\* line 82: optimizer.zero_grad() (a reset .grad counts as zero)
ZeroGradValue(grad) == 0

ZeroGrad ==
    /\ pc = "zero_grad"
    /\ model' = [model EXCEPT !.grad = ZeroGradValue(@)]
    /\ pc' = "backward"
    /\ hist' = [hist EXCEPT !.trace = Append(@, "zero_grad")]
    /\ UNCHANGED <<args, train_data, test_set, world, epoch, i, total_loss,
                   flow_dict, loss, optimizer, scheduler, files, model_path,
                   flow, call, ret>>

\* line 83: loss.backward() adds the gradient of this loss to .grad
Backward ==
    /\ pc = "backward"
    /\ LET d == Gradient(i + 1, flow_dict, GroundTruth(Batch))
       IN /\ model' = [model EXCEPT !.grad = @ + d]
          /\ hist' = [hist EXCEPT !.trace = Append(@, "backward"), !.batch_grad = d]
    /\ pc' = "step"
    /\ UNCHANGED <<args, train_data, test_set, world, epoch, i, total_loss,
                   flow_dict, loss, optimizer, scheduler, files, model_path,
                   flow, call, ret>>

\* line 84: optimizer.step()
OptimizerStep ==
    /\ pc = "step"
    /\ LET g == DecayedGrad(model.grad, model.param, args.weight_decay)
           m == Lerp(optimizer.exp_avg, g)
           p == AdamUpdate(model.param, m)
       IN /\ optimizer' = [optimizer EXCEPT !.exp_avg = m]
          /\ model' = [model EXCEPT !.param = p]
          /\ hist' = [hist EXCEPT !.trace = Append(@, "step"),
                                  !.opt_steps = @ + 1,
                                  !.param_before = model.param,
                                  !.exp_avg_before = optimizer.exp_avg,
                                  !.step_lr = optimizer.lr_decays,
                                  !.params_trained = p]
    /\ pc' = "accum"
    /\ UNCHANGED <<args, train_data, test_set, world, epoch, i, total_loss,
                   flow_dict, loss, scheduler, files, model_path, flow, call, ret>>

\* line 86: total_loss += loss.item(), and the loop of line 75 advances
AccumulateLoss ==
    /\ pc = "accum"
    /\ total_loss' = total_loss + loss
    /\ i' = i + 1
    /\ pc' = "fetch"
    /\ hist' = [hist EXCEPT !.trace = Append(@, "accum")]
    /\ UNCHANGED <<args, train_data, test_set, world, epoch, flow_dict, loss,
                   model, optimizer, scheduler, files, model_path, flow, call, ret>>

\* a mean that guards the division with one more in the denominator
MeanLoss_Guarded(total, batches) == [num |-> total, den |-> batches + 1]

\* line 87: total_loss / len(train_data), as the fraction it is
MeanLoss(total, batches) == [num |-> total, den |-> batches]

\* line 87: the report; the division raises ZeroDivisionError on an empty loader
Report ==
    /\ pc = "report"
    /\ IF Len(train_data) = 0
       THEN Abort("report", FALSE)
       ELSE /\ pc' = "sched"
            /\ hist' = [hist EXCEPT !.reports = @ + 1,
                                    !.mean = MeanLoss(total_loss, Len(train_data))]
    /\ UNCHANGED <<args, train_data, test_set, world, epoch, i, total_loss,
                   flow_dict, loss, model, optimizer, scheduler, files,
                   model_path, flow, call, ret>>

\* line 89: scheduler.step(), and the loop of line 72 advances
SchedulerStep ==
    /\ pc = "sched"
    /\ scheduler' = [scheduler EXCEPT !.last_epoch = @ + 1]
    /\ optimizer' = [optimizer EXCEPT !.lr_decays = StepLR(@, scheduler.last_epoch + 1)]
    /\ epoch' = epoch + 1
    /\ pc' = "epoch"
    /\ hist' = [hist EXCEPT !.sched_steps = @ + 1]
    /\ UNCHANGED <<args, train_data, test_set, world, i, total_loss, flow_dict,
                   loss, model, files, model_path, flow, call, ret>>

(***************************************************************************)
(* main(), lines 91-112: checkpoint, evaluation, export.                   *)
(***************************************************************************)
\* model.state_dict() and what torch.save / torch.load carry
state_dict(m) == m.param

\* a load from a fixed file name
LoadPath_Fixed == CheckpointPath(1)

\* line 99: the path handed to torch.load
LoadPath == model_path

\* lines 91-97: create the directory, save the parameters under a time stamp
SaveCheckpoint ==
    /\ pc = "save"
    /\ \E current_time \in Clock :
        /\ model_path' = CheckpointPath(current_time)
        /\ files' = [files EXCEPT !.ckpt[CheckpointPath(current_time)] = File(state_dict(model))]
        /\ hist' = [hist EXCEPT !.saved = CheckpointPath(current_time)]
    /\ pc' = "load"
    /\ UNCHANGED <<args, train_data, test_set, world, epoch, i, total_loss,
                   flow_dict, loss, model, optimizer, scheduler, flow, call, ret>>

\* lines 99-101: load the checkpoint, switch to eval mode, start with an
\* empty output
LoadCheckpoint ==
    /\ pc = "load"
    /\ IF files.ckpt[LoadPath] = NoFile
       THEN /\ Abort("load", FALSE)
            /\ UNCHANGED <<model, flow>>
       ELSE /\ model' = [model EXCEPT !.param = files.ckpt[LoadPath][1], !.training = FALSE]
            /\ flow' = <<>>
            /\ pc' = "eval"
            /\ hist' = [hist EXCEPT !.loaded = LoadPath]
    /\ UNCHANGED <<args, train_data, test_set, world, epoch, i, total_loss,
                   flow_dict, loss, optimizer, scheduler, files, model_path,
                   call, ret>>

\* line 107: model(event_image)["flow3"], one prediction per sample of the
\* batch, a function of the parameters and the sample
BatchFlow(batch) == [s \in 1..Len(batch) |-> [sample |-> batch[s], param |-> model.param]]

\* lines 104-108: one test batch, its prediction appended along dimension 0
EvalBatch ==
    /\ pc = "eval"
    /\ hist.evals < Len(test_data)
    /\ flow' = flow \o BatchFlow(test_data[hist.evals + 1])
    /\ hist' = [hist EXCEPT !.evals = @ + 1]
    /\ UNCHANGED <<args, train_data, test_set, world, pc, epoch, i, total_loss,
                   flow_dict, loss, model, optimizer, scheduler, files,
                   model_path, call, ret>>

\* line 104 exhausted, line 109
EvalDone ==
    /\ pc = "eval"
    /\ hist.evals >= Len(test_data)
    /\ pc' = "write"
    /\ UNCHANGED <<args, train_data, test_set, world, epoch, i, total_loss,
                   flow_dict, loss, model, optimizer, scheduler, files,
                   model_path, flow, hist, call, ret>>

\* lines 38-39 and 111-112: np.save("submission.npy", flow)
save_optical_flow_to_npy ==
    /\ pc = "write"
    /\ files' = [files EXCEPT !.submission = File(flow)]
    /\ pc' = "done"
    /\ hist' = [hist EXCEPT !.writes = @ + 1]
    /\ UNCHANGED <<args, train_data, test_set, world, epoch, i, total_loss,
                   flow_dict, loss, model, optimizer, scheduler, model_path,
                   flow, call, ret>>

\* the statements at which an external collaborator can raise
Fallible == {"forward", "loss", "backward", "step", "save", "load", "eval", "write"}

\* an exception of a collaborator: nothing catches it, main() ends
Fail ==
    /\ world.faulty
    /\ pc \in Fallible
    /\ pc = "eval" => hist.evals < Len(test_data)
    /\ Abort(pc, TRUE)
    /\ UNCHANGED <<args, train_data, test_set, world, epoch, i, total_loss,
                   flow_dict, loss, model, optimizer, scheduler, files,
                   model_path, flow, call, ret>>

Next ==
    \/ BeginEpoch
    \/ EndTraining
    \/ NextBatch
    \/ EndEpoch
    \/ Forward
    \/ ComputeLoss
    \/ ZeroGrad
    \/ Backward
    \/ OptimizerStep
    \/ AccumulateLoss
    \/ Report
    \/ SchedulerStep
    \/ SaveCheckpoint
    \/ LoadCheckpoint
    \/ EvalBatch
    \/ EvalDone
    \/ save_optical_flow_to_npy
    \/ Fail

Spec == Init /\ [][Next]_vars

SpecLong == InitLong /\ [][Next]_vars

TypeOK ==
    /\ pc \in {"epoch", "fetch", "forward", "loss", "zero_grad", "backward", "step",
               "accum", "report", "sched", "save", "load", "eval", "write", "done",
               "aborted"}
    /\ epoch \in 0..args.epochs
    /\ i \in 0..Len(train_data)

(***************************************************************************)
(* Stand-alone calls of the loss on bounded inputs: main() stands by, call *)
(* holds the arguments and ret receives the result.                        *)
(***************************************************************************)
Standby(c) ==
    /\ args = [epochs |-> 0, weight_decay |-> 0, test_batch_size |-> TestBatchSize]
    /\ train_data = <<>>
    /\ test_set = 0
    /\ world = [kind |-> "stub", faulty |-> FALSE, answers |-> <<>>]
    /\ pc = "call"
    /\ epoch = 0
    /\ i = 0
    /\ total_loss = 0
    /\ flow_dict = <<>>
    /\ loss = 0
    /\ model = [param |-> InitParam, grad |-> 0, training |-> TRUE]
    /\ optimizer = [lr_decays |-> 0, exp_avg |-> 0]
    /\ scheduler = [last_epoch |-> 0]
    /\ files = StaleFiles
    /\ model_path = NoPath
    /\ flow = <<>>
    /\ hist = [NoHist EXCEPT !.params_trained = InitParam]
    /\ call = <<c>>
    /\ ret = <<>>

Return(r) ==
    /\ ret' = <<r>>
    /\ pc' = "returned"
    /\ UNCHANGED <<args, train_data, test_set, world, epoch, i, total_loss,
                   flow_dict, loss, model, optimizer, scheduler, files,
                   model_path, flow, hist, call>>

\* every predicted size (pred_h, pred_w) that has the ratio of the ground
\* truth (gt_h, gt_w) and is not larger
ResizeInputs ==
    {c \in [gt_h : 1..MaxDim, gt_w : 1..MaxDim, pred_h : 1..MaxDim, pred_w : 1..MaxDim] :
        /\ c.pred_h <= c.gt_h
        /\ c.pred_h * c.gt_w = c.pred_w * c.gt_h}

InitResize == \E c \in ResizeInputs : Standby(c)

\* lines 32-33 for one predicted scale: the resized ground truth
Resize ==
    /\ pc = "call"
    /\ LET gt_flow   == Tensor(1, call[1].gt_h, call[1].gt_w, 0, 0)
           pred_flow == Tensor(1, call[1].pred_h, call[1].pred_w, 0, 0)
       IN Return(interpolate(gt_flow, scale_factor(pred_flow, gt_flow)))

NextResize == Resize

SpecResize == InitResize /\ [][NextResize]_vars

\* the scales of a prediction and the spatial size of each
ScaleNames == {"flow0", "flow1", "flow2", "flow3"}

ScaleSize(scale, size) ==
    IF scale = "flow3" THEN size
    ELSE IF scale = "flow2" THEN Half(size)
    ELSE IF scale = "flow1" THEN Half(Half(size))
    ELSE Half(Half(Half(size)))

\* one float32 unit next to a number of 25 bits
Big == Pow2(FloatPrec)

LossVals == {<<0, 0>>, <<1, 0>>, <<3, 4>>, <<Big, 0>>}

\* the endpoint error of flow a against flow g is exactly representable
ExactNorm(a, g) ==
    LET du == a[1] - g[1]
        dv == a[2] - g[2]
    IN du = 0 \/ dv = 0 \/ ISqrt(du * du + dv * dv) * ISqrt(du * du + dv * dv) = du * du + dv * dv

\* dicts of at most MaxScales distinct scales, in every insertion order
LossInputs ==
    {c \in [pred_flows : SeqsUpTo([scale : ScaleNames, val : LossVals], MaxScales),
            gt : {<<0, 0>>, <<1, 0>>}] :
        /\ \A j, k \in 1..Len(c.pred_flows) :
               j # k => c.pred_flows[j].scale # c.pred_flows[k].scale
        /\ \A j \in 1..Len(c.pred_flows) : ExactNorm(c.pred_flows[j].val, c.gt)}

\* the tensors of a stand-alone loss call
PredFlows(items) ==
    [j \in 1..Len(items) |->
        [scale |-> items[j].scale,
         t |-> Tensor(1, ScaleSize(items[j].scale, ImgH), ScaleSize(items[j].scale, ImgW),
                      items[j].val[1], items[j].val[2])]]

GtFlow(g) == Tensor(1, ImgH, ImgW, g[1], g[2])

InitLoss == \E c \in LossInputs : Standby(c)

CallLoss ==
    /\ pc = "call"
    /\ Return(compute_multiscale_epe_error(PredFlows(call[1].pred_flows), GtFlow(call[1].gt)))

NextLoss == CallLoss

SpecLoss == InitLoss /\ [][NextLoss]_vars

(***************************************************************************)
(* Properties.                                                             *)
(***************************************************************************)
Batches_M == Len(train_data)

AfterTraining == {"save", "load", "eval", "write", "done"}

AfterLoad == {"eval", "write", "done"}

Terminal == {"done", "aborted"}

\* the statements main() still has to execute before it returns, when
\* nothing raises: 7 per batch, 4 more per epoch, 5 and one per test batch
\* after the loop
StepsLeft ==
    LET M     == Len(train_data)
        N     == Len(test_data)
        after == (args.epochs - epoch - 1) * (4 + 7 * M) + 5 + N
        k     == CHOOSE j \in 1..6 :
                     pc = <<"forward", "loss", "zero_grad", "backward", "step", "accum">>[j]
    IN CASE pc = "epoch"  -> (args.epochs - epoch) * (4 + 7 * M) + 5 + N
         [] pc = "fetch"  -> after + 3 + 7 * (M - i)
         [] pc \in {"forward", "loss", "zero_grad", "backward", "step", "accum"}
                          -> after + 3 + 7 * (M - i - 1) + (7 - k)
         [] pc = "report" -> after + 2
         [] pc = "sched"  -> after + 1
         [] pc = "save"   -> 4 + N
         [] pc = "load"   -> 3 + N
         [] pc = "eval"   -> 2 + (N - hist.evals)
         [] pc = "write"  -> 1
         [] OTHER         -> 0

\* C1: with epochs = 0 no batch is trained, no optimizer step and no
\* scheduler step happens; the run raises nothing of its own and goes on,
\* statement by statement, to save a checkpoint under checkpoints/, reload
\* it, evaluate every test batch and write submission.npy.
C1_ZeroEpochs ==
    args.epochs = 0 /\ pc \notin {"call", "returned"} =>
        /\ hist.batches = 0 /\ hist.opt_steps = 0 /\ hist.sched_steps = 0
        /\ hist.resets = 0 /\ hist.reports = 0
        /\ pc = "aborted" => hist.injected
        /\ pc \in {"epoch", "aborted"} \cup AfterTraining
        /\ pc = "epoch" => ENABLED EndTraining /\ ~ENABLED BeginEpoch
        /\ pc = "save" => ENABLED SaveCheckpoint
        /\ pc = "load" => ENABLED LoadCheckpoint /\ files.ckpt[LoadPath] # NoFile
        /\ pc = "eval" => ENABLED (EvalBatch \/ EvalDone)
        /\ pc = "write" => ENABLED save_optical_flow_to_npy
        /\ StepsLeft <= 5 + Len(test_data)
        /\ pc \in {"load"} \cup AfterLoad =>
              /\ model_path[1] = "checkpoints"
              /\ files.ckpt[model_path] = File(InitParam)
        /\ pc \in AfterLoad => hist.loaded = model_path /\ model.param = InitParam
        /\ pc = "done" =>
              /\ hist.evals = Len(test_data)
              /\ files.submission = File(flow)
              /\ Len(flow) = test_set

C1_Witness ==
    /\ args.epochs = 0 /\ pc = "done" /\ Len(train_data) > 0
    /\ test_set >= 2 /\ files.submission = File(flow)

\* C2 as stated: evaluation over N batches of configured batch size B writes
\* an array of leading dimension exactly N * B, whatever the batch sizes.
C2_Original ==
    pc = "done" => Len(files.submission[1]) = Len(test_data) * args.test_batch_size

RECURSIVE SumLen(_, _)
SumLen(batches, k) == IF k = 0 THEN 0 ELSE Len(batches[k]) + SumLen(batches, k - 1)

\* C2 amended: the written array holds one prediction per test sample, in
\* iteration order: its leading dimension is the sum of the batch sizes,
\* which is N * B only when B divides the size of the test set.
C2_LeadingDimension ==
    /\ pc \in AfterLoad => /\ Len(flow) = SumLen(test_data, hist.evals)
                           /\ \A j \in 1..Len(flow) : flow[j].sample = j
    /\ pc = "done" =>
          /\ files.submission = File(flow)
          /\ Len(flow) = test_set
          /\ test_set % args.test_batch_size = 0 =>
                 Len(flow) = Len(test_data) * args.test_batch_size
          /\ test_set % args.test_batch_size # 0 =>
                 Len(flow) < Len(test_data) * args.test_batch_size

C2_Witness ==
    /\ pc = "done" /\ test_set > args.test_batch_size
    /\ test_set % args.test_batch_size # 0
    /\ Len(files.submission[1]) = test_set

\* the optimizer step of the current batch has just run on a prediction
\* that equals the resized ground truth at every scale
ZeroLossStep == pc = "accum" /\ AllMatch(flow_dict, GroundTruth(Batch))

\* C3 as stated: in such a step the loss is 0 and the optimizer step leaves
\* the parameters unchanged, for every weight_decay.
C3_Original ==
    ZeroLossStep => loss = 0 /\ model.param = hist.param_before

\* C3 amended: in such a step the loss is 0 and the gradient is zero; the
\* Adam step leaves the parameters unchanged when weight_decay is 0 and
\* Adam's running average of earlier gradients (exp_avg) is zero.
C3_ZeroLoss ==
    ZeroLossStep =>
        /\ loss = 0
        /\ hist.batch_grad = 0
        /\ args.weight_decay = 0 /\ hist.exp_avg_before = 0 =>
               model.param = hist.param_before /\ optimizer.exp_avg = 0

C3_Witness ==
    /\ ZeroLossStep /\ args.weight_decay = 0 /\ hist.exp_avg_before = 0
    /\ model.param = hist.param_before /\ hist.opt_steps = 1

\* C4: the checkpoint is loaded from the path it was just saved under, and
\* the parameters that evaluation uses are those the last optimizer step
\* left (the initial ones when no step ran).
C4_RoundTrip ==
    /\ pc \in {"load"} \cup AfterLoad =>
          hist.saved = model_path /\ files.ckpt[model_path] = File(hist.params_trained)
    /\ pc \in AfterLoad =>
          /\ hist.loaded = hist.saved
          /\ model.param = hist.params_trained
    /\ \A j \in 1..Len(flow) : flow[j].param = hist.params_trained
    /\ hist.opt_steps = 0 => hist.params_trained = InitParam

C4_Witness ==
    /\ pc = "done" /\ hist.opt_steps > 0 /\ Len(flow) > 0
    /\ model_path = CheckpointPath(2) /\ model.param # InitParam

\* C5: for a predicted scale with the ratio of the ground truth and not
\* larger, the resized ground truth has exactly the predicted spatial size.
C5_ResizeShape ==
    pc = "returned" =>
        /\ ret[1].ok
        /\ ret[1].t.h = call[1].pred_h
        /\ ret[1].t.w = call[1].pred_w

C5_Reached == pc = "returned" /\ call[1].pred_h < call[1].gt_h /\ ret[1].ok

\* the loss of the sub-mapping of the call that holds the items at the
\* positions in order, against the ground truth of the call
LossOf(order) ==
    compute_multiscale_epe_error(
        PredFlows([j \in 1..Len(order) |-> call[1].pred_flows[order[j]]]),
        GtFlow(call[1].gt)).val

\* the positions of S in increasing order
RECURSIVE Ascending(_)
Ascending(S) ==
    IF S = {} THEN <<>>
    ELSE LET lo == CHOOSE x \in S : \A y \in S : x <= y
         IN <<lo>> \o Ascending(S \ {lo})

\* every order of the positions 1..n
Orders(n) == {o \in [1..n -> 1..n] : \A j, k \in 1..n : j # k => o[j] # o[k]}

\* the endpoint error of the item at position j of the call
EPEOf(j) ==
    ScaleEPE(PredFlows(call[1].pred_flows)[j].t, GtFlow(call[1].gt)).val

\* the sum of the per-scale endpoint errors in exact arithmetic
RECURSIVE ExactSum(_)
ExactSum(S) ==
    IF S = {} THEN 0
    ELSE LET x == CHOOSE y \in S : TRUE
         IN EPEOf(x) + ExactSum(S \ {x})

\* the loss is additive over every split of the mapping in two, and no
\* iteration order changes it
Additive(n) ==
    /\ \A S \in SUBSET (1..n) :
           ret[1].val = FAdd32(LossOf(Ascending(S)), LossOf(Ascending((1..n) \ S)))
    /\ \A o \in Orders(n) : LossOf(o) = ret[1].val

\* C6 as stated: the loss is non-negative, 0 for the empty mapping, and
\* strictly additive over disjoint scale mappings whatever the order.
C6_Original ==
    pc = "returned" =>
        LET n == Len(call[1].pred_flows)
        IN /\ ret[1].ok /\ ret[1].val >= 0
           /\ n = 0 => ret[1].val = 0
           /\ Additive(n)

\* C6 amended: the loss is non-negative, 0 for the empty mapping, and every
\* scale enters unweighted; the terms are added in float32 in iteration
\* order, so additivity and order independence are exact for mappings of at
\* most two scales and hold up to float32 rounding (one part in 2^23 per
\* addition) beyond.
C6_Additive ==
    pc = "returned" =>
        LET n == Len(call[1].pred_flows)
            exact == ExactSum(1..n)
        IN /\ ret[1].ok /\ ret[1].val >= 0
           /\ n = 0 => ret[1].val = 0
           /\ n = 1 => ret[1].val = exact
           /\ n <= 2 => Additive(n)
           /\ Abs(ret[1].val - exact) <= n * (exact \div Pow2(FloatPrec - 1))
           /\ \A o \in Orders(n) :
                  Abs(LossOf(o) - ret[1].val) <= 2 * n * (exact \div Pow2(FloatPrec - 1))

C6_Witness ==
    /\ pc = "returned" /\ Len(call[1].pred_flows) = 2
    /\ ret[1].val > 0
    /\ LossOf(<<1>>) > 0 /\ LossOf(<<2>>) > 0 /\ LossOf(<<1>>) # LossOf(<<2>>)

\* the steps of one training batch, in the order of lines 79-86
BatchOrder == <<"forward", "loss", "zero_grad", "backward", "step", "accum">>

InBatch == {"forward", "loss", "zero_grad", "backward", "step", "accum"}

InEpoch == InBatch \cup {"fetch", "report", "sched"}

\* C7: the steps of a batch run in the order forward, loss, gradient
\* reset, backpropagation, optimizer step, accumulation; the gradient that
\* the optimizer applies is that of this batch's loss alone; one optimizer
\* step per batch, E * M in all; the accumulator starts each epoch at zero.
C7_BatchOrder ==
    pc \notin {"call", "returned", "aborted"} =>
        /\ \E k \in 0..Len(BatchOrder) : hist.trace = SubSeq(BatchOrder, 1, k)
        /\ pc \in InBatch \ {"forward"} => hist.trace[Len(hist.trace)] # pc
        /\ pc \in InBatch \ {"accum"} =>
               BatchOrder[Len(hist.trace) + 1] = pc
        /\ pc = "step" => model.grad = hist.batch_grad
        /\ pc \in InEpoch \ {"accum"} => hist.opt_steps = epoch * Batches_M + i
        /\ pc = "accum" => hist.opt_steps = epoch * Batches_M + i + 1
        /\ pc = "epoch" => hist.opt_steps = epoch * Batches_M
        /\ pc \in AfterTraining => hist.opt_steps = args.epochs * Batches_M
        /\ hist.batches \in {hist.opt_steps, hist.opt_steps + 1}
        /\ pc \in InEpoch => hist.resets = epoch + 1
        /\ pc \in InEpoch \ {"accum"} /\ i = 0 => total_loss = 0

C7_Witness ==
    /\ pc = "step" /\ epoch >= 1 /\ i >= 1
    /\ hist.batch_grad # 0 /\ model.grad = hist.batch_grad

C9_Original == pc = "aborted" => hist.injected

\* what holds in every state of a run
C9_Safe ==
    pc \notin {"call", "returned"} =>
        /\ StepsLeft >= 0
        /\ StepsLeft = 0 <=> pc \in Terminal
        /\ pc = "epoch" => ENABLED (BeginEpoch \/ EndTraining)
        /\ pc = "fetch" => ENABLED (NextBatch \/ EndEpoch)
        /\ pc = "report" => ENABLED Report
        /\ pc = "sched" => ENABLED SchedulerStep
        /\ pc = "save" => ENABLED SaveCheckpoint
        /\ Batches_M >= 1 \/ args.epochs = 0 => (pc = "aborted" => hist.injected)
        /\ pc \in AfterTraining =>
               epoch = args.epochs /\ hist.reports = epoch /\ hist.resets = epoch
        /\ pc = "sched" =>
               hist.mean = [num |-> total_loss, den |-> Batches_M] /\ Batches_M >= 1
        /\ pc \in {"load"} \cup AfterLoad => files.ckpt[model_path] # NoFile
        /\ Batches_M = 0 /\ args.epochs >= 1 =>
               pc \in {"epoch", "fetch", "report", "aborted"} /\ files = StaleFiles

\* C9 amended: unless a collaborator fails, for every epoch count E and
\* every number M >= 1 of batches (or E = 0) the loop passes through exactly
\* E epochs, reports for each the accumulator over the number of batches,
\* and ends, after which the checkpoint is saved; every statement executed
\* leaves fewer to execute, so the run ends.  With E >= 1 and an empty
\* loader the first report raises ZeroDivisionError and nothing is saved.
C9_Terminates ==
    /\ []C9_Safe
    /\ [][StepsLeft' < StepsLeft]_vars

C9_Witness ==
    /\ pc = "load" /\ args.epochs = MaxEpochs /\ Batches_M = MaxTrainBatches
    /\ hist.reports = MaxEpochs /\ ~world.faulty

TrainingSteps == {"forward", "loss", "zero_grad", "backward", "step", "accum", "report"}

\* what holds in every state of a run
C10_Safe ==
    pc \notin {"call", "returned"} =>
        /\ hist.failed_at # None =>
               /\ pc = "aborted"
               /\ files.submission = NoFile /\ hist.writes = 0
        /\ hist.failed_at \in TrainingSteps =>
               /\ files = StaleFiles /\ hist.saved = NoPath
               /\ hist.evals = 0 /\ flow = <<>>
        /\ pc = "aborted" => hist.failed_at # None
        /\ hist.writes <= 1
        /\ files.submission # NoFile <=> hist.writes = 1
        /\ hist.writes = 1 => pc = "done" /\ hist.evals = Len(test_data)

\* C10: a failure is fatal and nothing is retried: after a failure in
\* training no checkpoint is saved and evaluation never starts; after any
\* failure submission.npy is not written; it is written at most once, and
\* only after every test batch was evaluated.
C10_Fatal ==
    /\ []C10_Safe
    /\ [][pc = "aborted" => UNCHANGED vars]_vars
    /\ [][hist.failed_at # None => hist'.failed_at = hist.failed_at]_vars

C10_Witness ==
    /\ pc = "aborted" /\ hist.failed_at = "step" /\ hist.injected
    /\ hist.opt_steps >= 1 /\ epoch >= 1

====
